---- MODULE Spec2Model ----
(***************************************************************************)
(* Model of app.py, the personal finance chatbot: the SQLite tables, the   *)
(* Streamlit session state, the page handlers, and the two helpers         *)
(* calculate_tax and get_budget_summary.                                   *)
(*                                                                         *)
(* Python floats are IEEE-754 binary64.  A float is modelled as a record   *)
(* [m, e] standing for m * 2^e, with m a natural number of exactly 53 bits *)
(* kept as a little-endian sequence of 15-bit limbs (zero: the empty       *)
(* sequence), so that equal floats are equal records.  Every arithmetic    *)
(* operation computes the exact result and rounds it to nearest, ties to   *)
(* even, as the hardware does.  Only non-negative floats occur: every      *)
(* number input of the pages has min_value=0.0, and the code subtracts     *)
(* only the lower end of a bracket the income is above.                    *)
(***************************************************************************)
EXTENDS Integers, Sequences, FiniteSets, TLC

(* ---------------- natural numbers of arbitrary size ------------------- *)

LimbBits == 15
LimbBase == 2^LimbBits
Precision == 53

Min(a, b) == IF a <= b THEN a ELSE b

MaxOf(S) == CHOOSE x \in S : \A y \in S : y <= x

Limb(a, i) == IF 1 <= i /\ i <= Len(a) THEN a[i] ELSE 0

BTrim(a) == SubSeq(a, 1, MaxOf({0} \cup {i \in 1..Len(a) : a[i] /= 0}))

BFromInt(n) ==
    BTrim(<<n % LimbBase, (n \div LimbBase) % LimbBase, n \div (LimbBase * LimbBase)>>)

Tup(f, n) == SubSeq(f, 1, n)

\* The number of the n limb sums s, each below 2 * LimbBase: limb i takes a
\* carry when a lower limb overflows and every limb between is full.
BCarry(s, n) ==
    BTrim([i \in 1..n |->
        (s[i] + IF \E j \in 1..(i - 1) :
                      /\ s[j] >= LimbBase
                      /\ \A k \in (j + 1)..(i - 1) : s[k] = LimbBase - 1
                 THEN 1 ELSE 0) % LimbBase])

BAddN(a, b, n) == BCarry(Tup([i \in 1..n |-> Limb(a, i) + Limb(b, i)], n), n)

BAdd(a, b) == BAddN(a, b, 1 + IF Len(a) >= Len(b) THEN Len(a) ELSE Len(b))

\* a - b for a >= b
BSub(a, b) ==
    BTrim([i \in 1..Len(a) |->
        (a[i] - Limb(b, i)
              - IF \E j \in 1..(i - 1) :
                       /\ a[j] < Limb(b, j)
                       /\ \A k \in (j + 1)..(i - 1) : a[k] = Limb(b, k)
                THEN 1 ELSE 0) % LimbBase])

BCmpAt(a, b, i) == IF i = 0 THEN 0 ELSE IF a[i] < b[i] THEN -1 ELSE 1

BCmp(a, b) ==
    IF Len(a) /= Len(b) THEN (IF Len(a) < Len(b) THEN -1 ELSE 1)
    ELSE BCmpAt(a, b, MaxOf({0} \cup {i \in 1..Len(a) : a[i] /= b[i]}))

ShiftLimbs(a, w) == IF a = <<>> THEN a ELSE Tup([i \in 1..w |-> 0], w) \o a

\* a * k for 0 <= k < LimbBase
BMulSmallN(a, k, n) ==
    BCarry(Tup([i \in 1..n |-> ((Limb(a, i) * k) % LimbBase)
                                 + ((Limb(a, i - 1) * k) \div LimbBase)], n), n)

BMulSmall(a, k) == BMulSmallN(a, k, Len(a) + 1)

RECURSIVE BMul(_, _)
BMul(a, b) ==
    IF a = <<>> \/ b = <<>> THEN <<>>
    ELSE BAdd(BMulSmall(a, Head(b)), ShiftLimbs(BMul(a, Tail(b)), 1))

IntBitLen(n) == Cardinality({k \in 0..(LimbBits - 1) : 2^k <= n})

BBitLen(a) ==
    IF a = <<>> THEN 0 ELSE LimbBits * (Len(a) - 1) + IntBitLen(a[Len(a)])

\* a * p for p a power of two below LimbBase: no limb sum overflows
BShlBits(a, p) ==
    BTrim([i \in 1..(Len(a) + 1) |->
        ((Limb(a, i) * p) % LimbBase) + ((Limb(a, i - 1) * p) \div LimbBase)])

BShl(a, k) == ShiftLimbs(BShlBits(a, 2^(k % LimbBits)), k \div LimbBits)

BShrBits(a, w, r) ==
    IF Len(a) <= w THEN <<>>
    ELSE BTrim([i \in 1..(Len(a) - w) |->
             (a[i + w] \div 2^r) + (Limb(a, i + w + 1) % 2^r) * 2^(LimbBits - r)])

BShr(a, k) == BShrBits(a, k \div LimbBits, k % LimbBits)

BOdd(a) == a /= <<>> /\ a[1] % 2 = 1

\* One quotient limb of r0 \div d, for r0 < d * LimbBase and d with its top bit
\* set: the estimate qhat from the two top limbs is at most 2 too large.
DigitNear(r0, d, qhat) ==
    MaxOf({q \in (IF qhat < 2 THEN 0 ELSE qhat - 2)..qhat :
              BCmp(BMulSmall(d, q), r0) <= 0})

Digit(r0, d) ==
    DigitNear(r0, d, Min(LimbBase - 1,
        (Limb(r0, Len(d) + 1) * LimbBase + Limb(r0, Len(d))) \div d[Len(d)]))

\* Long division, one limb of N at a time from the top.
RECURSIVE BDivModN(_, _)
BDivModN(N, d) ==
    IF Len(N) < Len(d) THEN <<<<>>, N>>
    ELSE LET Step(r0, qd, q) == <<BTrim(<<qd>> \o q), BSub(r0, BMulSmall(d, qd))>>
             Take(r0, q)     == Step(r0, Digit(r0, d), q)
             Below(hi)       == Take(BTrim(<<Head(N)>> \o hi[2]), hi[1])
         IN  Below(BDivModN(Tail(N), d))

\* Short division by a single limb k.
RECURSIVE BDivSmall(_, _)
BDivSmall(N, k) ==
    IF N = <<>> THEN << <<>>, 0 >>
    ELSE LET Step(cur, q) == << <<cur \div k>> \o q, cur % k >>
             Below(hi)    == Step(hi[2] * LimbBase + Head(N), hi[1])
         IN  Below(BDivSmall(Tail(N), k))

ZeroLimbs(d) == MaxOf({0} \cup {i \in 1..Len(d) : \A j \in 1..i : d[j] = 0})

\* Quotient and remainder of N by d /= 0, for d with z low limbs that are zero
\* (the mantissa of a small integer ends in zero limbs): these are set aside,
\* a divisor of one limb is divided by directly, a longer one after scaling
\* it to have its top bit set.
BDivModZ(N, d, z) ==
    LET d1 == SubSeq(d, z + 1, Len(d))
        N1 == SubSeq(N, z + 1, Len(N))
        Short(s)   == <<BTrim(s[1]), BFromInt(s[2])>>
        Long(n, k) == <<n[1], BShr(n[2], k)>>
        Scaled(k)  == Long(BDivModN(BShl(N1, k), BShl(d1, k)), k)
        Whole(qr)  == <<qr[1], BAdd(ShiftLimbs(qr[2], z),
                                     BTrim(SubSeq(N, 1, Min(z, Len(N)))))>>
    IN  Whole(IF Len(d1) = 1 THEN Short(BDivSmall(N1, d1[1]))
              ELSE Scaled(LimbBits - IntBitLen(d1[Len(d1)])))

\* <<N \div d, N % d>> for d /= 0
BDivMod(N, d) == BDivModZ(N, d, ZeroLimbs(d))

(* ---------------- binary64 arithmetic ------------------------------- *)

Zero == [m |-> <<>>, e |-> 0]

\* The float nearest to N * 2^e, ties to even; sticky tells that N stands for
\* a number slightly above N.
Round(N, e, sticky) ==
    LET Carried(q, e2) == IF BBitLen(q) > Precision
                          THEN [m |-> BShr(q, 1), e |-> e2 + 1]
                          ELSE [m |-> q, e |-> e2]
        Up(q, c)       == c = 1 \/ (c = 0 /\ (sticky \/ BOdd(q)))
        Nearest(q, s)  == Carried(IF Up(q, BCmp(BSub(N, BShl(q, s)), BShl(<<1>>, s - 1)))
                                  THEN BAdd(q, <<1>>) ELSE q, e + s)
        Sized(L)       == IF L = 0 THEN Zero
                          ELSE IF L <= Precision
                          THEN [m |-> BShl(N, Precision - L), e |-> e - (Precision - L)]
                          ELSE Nearest(BShr(N, L - Precision), L - Precision)
    IN  Sized(BBitLen(N))

FromInt(n) == Round(BFromInt(n), 0, FALSE)

FMul(x, y) == Round(BMul(x.m, y.m), x.e + y.e, FALSE)

FLe(x, y) ==
    IF x.m = <<>> THEN TRUE
    ELSE IF y.m = <<>> THEN FALSE
    ELSE IF x.e /= y.e THEN x.e < y.e
    ELSE BCmp(x.m, y.m) <= 0

FLt(x, y) == ~FLe(y, x)

MaxAlign == 64

FAddAligned(hi, lo) ==
    IF hi.e - lo.e > MaxAlign THEN hi
    ELSE Round(BAdd(BShl(hi.m, hi.e - lo.e), lo.m), lo.e, FALSE)

FAdd(x, y) ==
    IF x.m = <<>> THEN y
    ELSE IF y.m = <<>> THEN x
    ELSE IF x.e >= y.e THEN FAddAligned(x, y) ELSE FAddAligned(y, x)

\* x - y for x >= y >= 0
FSub(x, y) ==
    IF y.m = <<>> THEN x
    ELSE IF x.e - y.e > MaxAlign THEN x
    ELSE Round(BSub(BShl(x.m, x.e - y.e), y.m), y.e, FALSE)

GuardBits == Precision + 2

FDiv(x, y) ==
    IF x.m = <<>> THEN Zero
    ELSE LET Rounded(qr) == Round(qr[1], x.e - y.e - GuardBits, qr[2] /= <<>>)
         IN  Rounded(BDivMod(BShl(x.m, GuardBits), y.m))

(* ---------------- state ------------------------------------------------ *)

VARIABLES
    users,          \* table users: username -> row, or NoRow
    chat_history,   \* table chat_history, in insertion order
    expenses,       \* table expenses, in insertion order
    investments,    \* table investments, in insertion order
    session_state,  \* st.session_state of the browser session
    widgets,        \* the values of the input widgets of the page shown
    ui,             \* what the last script run displayed
    last_run,       \* what triggered it, and the backend's response to it
    args,           \* arguments of the direct calls of the two helpers
    rets            \* their results

dbVars   == <<users, chat_history, expenses, investments>>
appVars  == <<users, chat_history, expenses, investments, session_state, widgets, ui,
              last_run>>
callVars == <<args, rets>>
vars     == <<users, chat_history, expenses, investments, session_state, widgets, ui,
              last_run, args, rets>>

(* ---------------- helpers of app.py ------------------------------------ *)

\* A decimal literal n/d of the source, such as 0.05: the nearest float.
Lit(n, d) == FDiv(FromInt(n), FromInt(d))

\* Python's x / y: division by zero raises.
ZeroDivisionError == [raised |-> "ZeroDivisionError"]

Raised(v) == "raised" \in DOMAIN v

TrueDiv(x, y) == IF y.m = <<>> THEN ZeroDivisionError ELSE FDiv(x, y)

\* A mutant of budget_split: user types compared without regard to case.
budget_split_any_case(user_type) ==
    IF user_type \in {"Student", "student"}
    THEN << <<"Essentials", Lit(50, 100)>>,
            <<"Education", Lit(30, 100)>>,
            <<"Savings", Lit(20, 100)>> >>
    ELSE << <<"Essentials", Lit(40, 100)>>,
            <<"Savings", Lit(20, 100)>>,
            <<"Investments", Lit(20, 100)>>,
            <<"Discretionary", Lit(20, 100)>> >>

\* A mutant of budget_split: the Student and default splits do not add up.
budget_split_short(user_type) ==
    IF user_type = "Student"
    THEN << <<"Essentials", Lit(50, 100)>>,
            <<"Education", Lit(30, 100)>>,
            <<"Savings", Lit(10, 100)>> >>
    ELSE << <<"Essentials", Lit(40, 100)>>,
            <<"Savings", Lit(20, 100)>>,
            <<"Investments", Lit(20, 100)>>,
            <<"Discretionary", Lit(10, 100)>> >>

\* The dict `budget`, as the sequence of its items in insertion order.
budget_split(user_type) ==
    IF user_type = "Student"
    THEN << <<"Essentials", Lit(50, 100)>>,
            <<"Education", Lit(30, 100)>>,
            <<"Savings", Lit(20, 100)>> >>
    ELSE << <<"Essentials", Lit(40, 100)>>,
            <<"Savings", Lit(20, 100)>>,
            <<"Investments", Lit(20, 100)>>,
            <<"Discretionary", Lit(20, 100)>> >>

\* A mutant of get_budget_summary: amounts also for income 0.
get_budget_summary_ge(user_type, income) ==
    LET Summary(budget) ==
            Tup([i \in 1..Len(budget) |->
                    <<budget[i][1], FMul(budget[i][2], income)>>], Len(budget))
    IN  Summary(budget_split(user_type))

get_budget_summary(user_type, income) ==
    LET Summary(budget) ==
            IF FLt(Zero, income)
            THEN Tup([i \in 1..Len(budget) |->
                         <<budget[i][1], FMul(budget[i][2], income)>>], Len(budget))
            ELSE budget
    IN  Summary(budget_split(user_type))

\* A mutant of slab_tax: the third slab forgets the tax of the slabs below.
slab_tax_no_base(annual_income) ==
    IF FLe(annual_income, FromInt(300000)) THEN Zero
    ELSE IF FLe(annual_income, FromInt(600000))
    THEN FMul(FSub(annual_income, FromInt(300000)), Lit(5, 100))
    ELSE IF FLe(annual_income, FromInt(900000))
    THEN FMul(FSub(annual_income, FromInt(600000)), Lit(10, 100))
    ELSE IF FLe(annual_income, FromInt(1200000))
    THEN FAdd(FromInt(45000), FMul(FSub(annual_income, FromInt(900000)), Lit(15, 100)))
    ELSE IF FLe(annual_income, FromInt(1500000))
    THEN FAdd(FromInt(90000), FMul(FSub(annual_income, FromInt(1200000)), Lit(20, 100)))
    ELSE FAdd(FromInt(150000), FMul(FSub(annual_income, FromInt(1500000)), Lit(30, 100)))

\* A mutant of slab_tax: the top slab is taxed at the rate of the one below.
slab_tax_top_rate(annual_income) ==
    IF FLe(annual_income, FromInt(300000)) THEN Zero
    ELSE IF FLe(annual_income, FromInt(600000))
    THEN FMul(FSub(annual_income, FromInt(300000)), Lit(5, 100))
    ELSE IF FLe(annual_income, FromInt(900000))
    THEN FAdd(FromInt(15000), FMul(FSub(annual_income, FromInt(600000)), Lit(10, 100)))
    ELSE IF FLe(annual_income, FromInt(1200000))
    THEN FAdd(FromInt(45000), FMul(FSub(annual_income, FromInt(900000)), Lit(15, 100)))
    ELSE IF FLe(annual_income, FromInt(1500000))
    THEN FAdd(FromInt(90000), FMul(FSub(annual_income, FromInt(1200000)), Lit(20, 100)))
    ELSE FAdd(FromInt(150000), FMul(FSub(annual_income, FromInt(1500000)), Lit(20, 100)))

\* The if/elif chain of calculate_tax: the base tax of an annual income.
slab_tax(annual_income) ==
    IF FLe(annual_income, FromInt(300000)) THEN Zero
    ELSE IF FLe(annual_income, FromInt(600000))
    THEN FMul(FSub(annual_income, FromInt(300000)), Lit(5, 100))
    ELSE IF FLe(annual_income, FromInt(900000))
    THEN FAdd(FromInt(15000), FMul(FSub(annual_income, FromInt(600000)), Lit(10, 100)))
    ELSE IF FLe(annual_income, FromInt(1200000))
    THEN FAdd(FromInt(45000), FMul(FSub(annual_income, FromInt(900000)), Lit(15, 100)))
    ELSE IF FLe(annual_income, FromInt(1500000))
    THEN FAdd(FromInt(90000), FMul(FSub(annual_income, FromInt(1200000)), Lit(20, 100)))
    ELSE FAdd(FromInt(150000), FMul(FSub(annual_income, FromInt(1500000)), Lit(30, 100)))

\* A mutant of tax_record: the cess is computed but not added to the total.
tax_record_no_cess(annual_income, tax) ==
    LET Record(cess, total_tax) ==
            [annual_income  |-> annual_income,
             tax            |-> tax,
             cess           |-> cess,
             total_tax      |-> total_tax,
             monthly_tax    |-> TrueDiv(total_tax, FromInt(12)),
             effective_rate |-> IF FLt(Zero, annual_income)
                                THEN FMul(TrueDiv(total_tax, annual_income), FromInt(100))
                                ELSE Zero]
    IN  Record(FMul(tax, Lit(4, 100)), tax)

\* A mutant of tax_record: the effective rate is computed without the guard,
\* so that the division raises on an annual income of 0.
tax_record_unguarded(annual_income, tax) ==
    LET Record(cess, total_tax, rate) ==
            IF Raised(rate) THEN rate
            ELSE [annual_income  |-> annual_income,
                  tax            |-> tax,
                  cess           |-> cess,
                  total_tax      |-> total_tax,
                  monthly_tax    |-> TrueDiv(total_tax, FromInt(12)),
                  effective_rate |-> FMul(rate, FromInt(100))]
        Total(cess, total_tax) == Record(cess, total_tax, TrueDiv(total_tax, annual_income))
        Cess(cess) == Total(cess, FAdd(tax, cess))
    IN  Cess(FMul(tax, Lit(4, 100)))

\* The cess, the total and the returned dict of calculate_tax.
tax_record(annual_income, tax) ==
    LET Record(cess, total_tax) ==
            [annual_income  |-> annual_income,
             tax            |-> tax,
             cess           |-> cess,
             total_tax      |-> total_tax,
             monthly_tax    |-> TrueDiv(total_tax, FromInt(12)),
             effective_rate |-> IF FLt(Zero, annual_income)
                                THEN FMul(TrueDiv(total_tax, annual_income), FromInt(100))
                                ELSE Zero]
        Cess(cess) == Record(cess, FAdd(tax, cess))
    IN  Cess(FMul(tax, Lit(4, 100)))

calculate_tax(income, user_type) ==
    LET Annual(annual_income) == tax_record(annual_income, slab_tax(annual_income))
    IN  Annual(FMul(income, FromInt(12)))

(* ---------------- the database helpers --------------------------------- *)

NoRow == [exists |-> FALSE]

\* hashlib.sha256(password.encode()).hexdigest(): a digest that differs from
\* the password and, on the passwords of the model, from every other digest.
hash_password(password) == <<"sha256", password>>

\* c.fetchone() of SELECT ... FROM users WHERE username=?
fetch_user(username) ==
    LET rows == {i \in 1..Len(users) : users[i].username = username}
    IN  IF rows = {} THEN NoRow ELSE users[CHOOSE i \in rows : \A j \in rows : i <= j]

\* A mutant of register_user: the table users has no primary key.
register_user_no_key(username, password, user_type) ==
    [returned |-> TRUE,
     users |-> Append(users, [username       |-> username,
                              password_hash  |-> hash_password(password),
                              user_type      |-> user_type,
                              monthly_income |-> 0,
                              savings_goal   |-> 0])]

\* The INSERT of register_user violates the primary key, and raises
\* sqlite3.IntegrityError, exactly if the username has a row.
register_user(username, password, user_type) ==
    IF fetch_user(username) /= NoRow
    THEN [returned |-> FALSE, users |-> users]
    ELSE [returned |-> TRUE,
          users |-> Append(users, [username       |-> username,
                                   password_hash  |-> hash_password(password),
                                   user_type      |-> user_type,
                                   monthly_income |-> 0,
                                   savings_goal   |-> 0])]

validate_user(username, password) ==
    LET row == fetch_user(username)
    IN  row /= NoRow /\ row.password_hash = hash_password(password)

get_user_profile(username) ==
    LET row == fetch_user(username)
    IN  IF row /= NoRow
        THEN [user_type      |-> row.user_type,
              monthly_income |-> row.monthly_income,
              savings_goal   |-> row.savings_goal]
        ELSE [user_type |-> "Student", monthly_income |-> 0, savings_goal |-> 0]

\* The table users after update_user_profile.
update_user_profile(username, user_type, income, savings_goal) ==
    Tup([i \in 1..Len(users) |->
            IF users[i].username = username
            THEN [users[i] EXCEPT !.user_type = user_type,
                                  !.monthly_income = income,
                                  !.savings_goal = savings_goal]
            ELSE users[i]], Len(users))

\* The tables after save_chat_history, add_expense and add_investment.
save_chat_history(username, user_msg, bot_response) ==
    Append(chat_history, [username     |-> username,
                          user_message |-> user_msg,
                          bot_response |-> bot_response])

add_expense(username, category, amount, description) ==
    Append(expenses, [username    |-> username,
                      category    |-> category,
                      amount      |-> amount,
                      description |-> description])

add_investment(username, inv_type, amount, returns) ==
    Append(investments, [username        |-> username,
                         investment_type |-> inv_type,
                         amount          |-> amount,
                         returns         |-> returns])

(* ---------------- the backend ------------------------------------------ *)

\* What requests.post or requests.get comes back with: an exception, or a
\* response with a status code and a text which is the JSON of a dict or not.
Timeout == [raised |-> "Timeout"]

Json(dict) == [json |-> dict]

Html == [html |-> "Bad Gateway"]

Response(status_code, text) == [status_code |-> status_code, text |-> text]

NoResponse == [requested |-> FALSE]

\* resp.raise_for_status(); resp.json(); data[key]
raise_for_status(resp) ==
    IF resp.status_code >= 400 THEN [raised |-> "HTTPError"] ELSE [returned |-> resp]

json_item(resp, key) ==
    IF "json" \notin DOMAIN resp.text THEN [raised |-> "JSONDecodeError"]
    ELSE IF key \notin DOMAIN resp.text.json THEN [raised |-> "KeyError"]
    ELSE [returned |-> resp.text.json[key]]

\* call_backend, given what requests.post comes back with.
call_backend(prompt, user_type, resp) ==
    IF Raised(resp) THEN resp
    ELSE IF Raised(raise_for_status(resp)) THEN raise_for_status(resp)
    ELSE json_item(resp, "generated_text")

\* requests.get(.../health, timeout=10).json() and h['status'] of the
\* Check Backend button: the status code of the response is not looked at.
health(resp) ==
    IF Raised(resp) THEN resp ELSE json_item(resp, "status")

(* ---------------- what a page shows ------------------------------------ *)

NoWidgets == [page |-> "none"]

NoMessage == [kind |-> "none"]

Message(kind, text) == [kind |-> kind, text |-> text]



Max80C == 150000

\* The number inputs and select boxes of a page, at their default values.
PageWidgets(page, profile) ==
    IF page = "profile"
    THEN [page         |-> "profile",
          user_type    |-> profile.user_type,
          income       |-> profile.monthly_income,
          savings_goal |-> profile.savings_goal]
    ELSE IF page = "tax"
    THEN [page |-> "tax", monthly_income |-> profile.monthly_income,
          pf |-> 0, elss |-> 0, lic |-> 0]
    ELSE IF page = "expenses"
    THEN [page |-> "expenses", category |-> "Food", amount |-> 0, description |-> ""]
    ELSE NoWidgets

NoResults == [shown |-> FALSE]

\* What a page renders from its widgets and the session state: the budget
\* recommendation of the profile page; the total of the deductions and, once
\* there is a tax calculation, the results and the tips of the tax page.
PageView(w, state) ==
    IF w.page = "profile"
    THEN IF w.income > 0
         THEN [kind |-> "budget",
               budget |-> get_budget_summary(w.user_type, FromInt(w.income))]
         ELSE Message("info", "Set your monthly income to see budget recommendations")
    ELSE IF w.page = "tax"
    THEN [kind      |-> "info",
          text      |-> "Total 80C Deductions",
          total_80c |-> Min(w.pf + w.elss + w.lic, Max80C),
          results   |-> IF "tax_calculation" \in DOMAIN state
                        THEN [tax_info |-> state.tax_calculation,
                              tips     |-> IF "tax_tips" \in DOMAIN state
                                           THEN state.tax_tips ELSE ""]
                        ELSE NoResults]
    ELSE NoMessage

\* A script run from the top that shows the page with its default widgets.
Show(page, profile) ==
    LET w == PageWidgets(page, profile)
    IN  widgets' = w /\ ui' = PageView(w, session_state')

Event(name, resp) == [event |-> name, response |-> resp]

LoggedIn == session_state.logged_in

OnPage(page) == LoggedIn /\ session_state.current_page = page

\* session_state[key] = value
SetItem(state, key, value) == (key :> value) @@ state

(* ---------------- login_page ------------------------------------------- *)

Blank == {"", " "}

strip(s) == IF s \in Blank THEN "" ELSE s

MinPasswordLen == 6

Login(username, password) ==
    /\ ~LoggedIn
    /\ IF validate_user(username, password)
       THEN /\ session_state' = [session_state EXCEPT !.logged_in = TRUE,
                                                      !.username = username]
            /\ Show(session_state.current_page, get_user_profile(username))
       ELSE /\ ui' = Message("error", "Invalid username or password")
            /\ UNCHANGED <<session_state, widgets>>
    /\ last_run' = Event("Login", NoResponse)
    /\ UNCHANGED <<dbVars, callVars>>

Register(new_username, new_password, user_type) ==
    /\ ~LoggedIn
    /\ IF strip(new_username) = "" \/ strip(new_password) = ""
       THEN /\ ui' = Message("error", "Username and password cannot be empty")
            /\ UNCHANGED users
       ELSE IF Len(new_password) < MinPasswordLen
       THEN /\ ui' = Message("error", "Password must be at least 6 characters")
            /\ UNCHANGED users
       ELSE LET r == register_user(new_username, new_password, user_type)
            IN  /\ users' = r.users
                /\ ui' = IF r.returned
                         THEN Message("success", "Registration successful! You can now log in.")
                         ELSE Message("error", "Username already exists. Try another.")
    /\ last_run' = Event("Register", NoResponse)
    /\ UNCHANGED <<chat_history, expenses, investments, session_state, widgets, callVars>>

(* ---------------- sidebar_menu ----------------------------------------- *)

Pages == {"chatbot", "profile", "expenses", "investments", "tax", "history"}

Navigate(page) ==
    /\ LoggedIn
    /\ session_state' = [session_state EXCEPT !.current_page = page]
    /\ Show(page, get_user_profile(session_state.username))
    /\ last_run' = Event("Navigate", NoResponse)
    /\ UNCHANGED <<dbVars, callVars>>

Logout ==
    /\ LoggedIn
    /\ session_state' = [session_state EXCEPT !.logged_in = FALSE,
                                              !.username = "",
                                              !.chat_messages = <<>>]
    /\ widgets' = NoWidgets
    /\ ui' = NoMessage
    /\ last_run' = Event("Logout", NoResponse)
    /\ UNCHANGED <<dbVars, callVars>>

(* ---------------- chatbot_page ----------------------------------------- *)

MaxRows == 1
MaxChatMessages == 2

CheckBackend(resp) ==
    /\ OnPage("chatbot")
    /\ LET h == health(resp)
       IN  ui' = IF Raised(h)
                 THEN Message("error", "Backend not reachable: " \o h.raised)
                 ELSE Message("success", "Backend OK: " \o h.returned)
    /\ last_run' = Event("Check Backend", resp)
    /\ UNCHANGED <<dbVars, session_state, widgets, callVars>>

ChatInput(user_input, resp) ==
    /\ OnPage("chatbot")
    /\ Len(session_state.chat_messages) + 2 <= MaxChatMessages
    /\ LET profile == get_user_profile(session_state.username)
           asked == Append(session_state.chat_messages,
                           [role |-> "user", content |-> user_input])
           response == call_backend(user_input, profile.user_type, resp)
       IN  IF Raised(response)
           THEN /\ session_state' = [session_state EXCEPT !.chat_messages = asked]
                /\ ui' = Message("error", "Error: " \o response.raised)
                /\ UNCHANGED chat_history
           ELSE /\ Len(chat_history) < MaxRows
                /\ chat_history' = save_chat_history(session_state.username, user_input,
                                                     response.returned)
                /\ session_state' =
                       [session_state EXCEPT !.chat_messages =
                           Append(asked, [role |-> "assistant",
                                          content |-> response.returned])]
                /\ ui' = NoMessage
    /\ last_run' = Event("chat_input", resp)
    /\ UNCHANGED <<users, expenses, investments, widgets, callVars>>

(* ---------------- profile_page ----------------------------------------- *)

\* A mutant of ProfileInput: the values of the widgets are saved as entered.
ProfileInput_Saving(user_type, income, savings_goal) ==
    /\ OnPage("profile")
    /\ widgets' = [page |-> "profile", user_type |-> user_type, income |-> income,
                   savings_goal |-> savings_goal]
    /\ ui' = PageView(widgets', session_state)
    /\ last_run' = Event("profile_input", NoResponse)
    /\ users' = update_user_profile(session_state.username, user_type, income, savings_goal)
    /\ UNCHANGED <<chat_history, expenses, investments, session_state, callVars>>

\* The user changes the inputs of the profile page: the script runs again and
\* renders the budget recommendation from the values of the widgets.
ProfileInput(user_type, income, savings_goal) ==
    /\ OnPage("profile")
    /\ widgets' = [page |-> "profile", user_type |-> user_type, income |-> income,
                   savings_goal |-> savings_goal]
    /\ ui' = PageView(widgets', session_state)
    /\ last_run' = Event("profile_input", NoResponse)
    /\ UNCHANGED <<dbVars, session_state, callVars>>

UpdateProfile ==
    /\ OnPage("profile")
    /\ users' = update_user_profile(session_state.username, widgets.user_type,
                                    widgets.income, widgets.savings_goal)
    /\ ui' = PageView(widgets, session_state)
    /\ last_run' = Event("Update Profile", NoResponse)
    /\ UNCHANGED <<chat_history, expenses, investments, session_state, widgets, callVars>>

(* ---------------- expense_tracker_page, investment_page ---------------- *)

MaxExpenses == 2

\* A mutant of AddExpense: the amount is not looked at.
AddExpense_Unchecked(category, amount, description) ==
    /\ OnPage("expenses")
    /\ Len(expenses) < MaxExpenses
    /\ widgets' = [page |-> "expenses", category |-> category, amount |-> amount,
                   description |-> description]
    /\ expenses' = add_expense(session_state.username, category, amount, description)
    /\ ui' = NoMessage
    /\ last_run' = Event("Add Expense", NoResponse)
    /\ UNCHANGED <<users, chat_history, investments, session_state, callVars>>

\* The user fills in the inputs of the expense page and presses Add Expense:
\* the script runs with these values in the widgets.
AddExpense(category, amount, description) ==
    /\ OnPage("expenses")
    /\ widgets' = [page |-> "expenses", category |-> category, amount |-> amount,
                   description |-> description]
    /\ IF amount > 0
       THEN /\ Len(expenses) < MaxExpenses
            /\ expenses' = add_expense(session_state.username, category, amount, description)
            /\ ui' = NoMessage
       ELSE /\ ui' = Message("error", "Amount must be greater than 0")
            /\ UNCHANGED expenses
    /\ last_run' = Event("Add Expense", NoResponse)
    /\ UNCHANGED <<users, chat_history, investments, session_state, callVars>>

AddInvestment(inv_type, amount, returns) ==
    /\ OnPage("investments")
    /\ IF amount > 0
       THEN /\ Len(investments) < MaxRows
            /\ investments' = add_investment(session_state.username, inv_type, amount, returns)
            /\ ui' = NoMessage
       ELSE /\ ui' = Message("error", "Amount must be greater than 0")
            /\ UNCHANGED investments
    /\ last_run' = Event("Add Investment", NoResponse)
    /\ UNCHANGED <<users, chat_history, expenses, session_state, widgets, callVars>>

(* ---------------- tax_calculator_page ---------------------------------- *)

TipsUnavailable == "Unable to fetch tax saving tips"

\* The user changes the inputs of the tax page: the script runs again and
\* shows the total of the deductions.
TaxInput(monthly_income, pf, elss, lic) ==
    /\ OnPage("tax")
    /\ widgets' = [page |-> "tax", monthly_income |-> monthly_income,
                   pf |-> pf, elss |-> elss, lic |-> lic]
    /\ ui' = PageView(widgets', session_state)
    /\ last_run' = Event("tax_input", NoResponse)
    /\ UNCHANGED <<dbVars, session_state, callVars>>

\* What the generation service may answer to a request of call_backend.
GenerateResponses ==
    { Timeout,
      Response(200, Json([generated_text |-> "Invest in PPF."])),
      Response(503, Json([detail |-> "Service Unavailable"])),
      Response(200, Html),
      Response(200, Json([detail |-> "no text generated"])) }

\* A mutant of CalculateTax: the deductions are taken off the annual income,
\* a twelfth of them off the monthly income the tax is calculated of.
CalculateTax_Deducting ==
    /\ OnPage("tax")
    /\ LET profile == get_user_profile(session_state.username)
           monthly_income == widgets.monthly_income
           total_80c == Min(widgets.pf + widgets.elss + widgets.lic, Max80C)
       IN  IF monthly_income > 0
           THEN \E tax_info \in {calculate_tax(
                                     FSub(FromInt(monthly_income),
                                          FDiv(FromInt(total_80c), FromInt(12))),
                                     profile.user_type)} :
                \E resp \in GenerateResponses :
                    LET tips == call_backend(<<"tax saving tips", monthly_income>>,
                                             profile.user_type, resp)
                    IN  /\ session_state' =
                               SetItem(SetItem(session_state, "tax_tips",
                                               IF Raised(tips) THEN TipsUnavailable
                                               ELSE tips.returned),
                                       "tax_calculation", tax_info)
                        /\ last_run' = Event("Calculate Tax", resp)
           ELSE /\ last_run' = Event("Calculate Tax", NoResponse)
                /\ UNCHANGED session_state
    /\ ui' = PageView(widgets, session_state')
    /\ UNCHANGED <<dbVars, widgets, callVars>>

\* The Calculate Tax button.  The tax is calculated once, whatever the
\* service then answers to the request for tips.
CalculateTax ==
    /\ OnPage("tax")
    /\ LET profile == get_user_profile(session_state.username)
           monthly_income == widgets.monthly_income
       IN  IF monthly_income > 0
           THEN \E tax_info \in {calculate_tax(FromInt(monthly_income),
                                               profile.user_type)} :
                \E resp \in GenerateResponses :
                    LET tips == call_backend(<<"tax saving tips", monthly_income>>,
                                             profile.user_type, resp)
                    IN  /\ session_state' =
                               SetItem(SetItem(session_state, "tax_tips",
                                               IF Raised(tips) THEN TipsUnavailable
                                               ELSE tips.returned),
                                       "tax_calculation", tax_info)
                        /\ last_run' = Event("Calculate Tax", resp)
           ELSE /\ last_run' = Event("Calculate Tax", NoResponse)
                /\ UNCHANGED session_state
    /\ ui' = PageView(widgets, session_state')
    /\ UNCHANGED <<dbVars, widgets, callVars>>

(* ---------------- the application -------------------------------------- *)

\* init_db on a fresh users.db, and the session state defaults.
InitDb ==
    /\ users = <<>>
    /\ chat_history = <<>>
    /\ expenses = <<>>
    /\ investments = <<>>

InitSession ==
    /\ session_state = [logged_in |-> FALSE, username |-> "",
                        chat_messages |-> <<>>, current_page |-> "chatbot"]
    /\ widgets = NoWidgets
    /\ ui = NoMessage
    /\ last_run = Event("start", NoResponse)

NotCalled == [called |-> FALSE]

Called(r) == "called" \notin DOMAIN r

NoCalls ==
    /\ args = [income1 |-> 0, income2 |-> 0, user_type |-> "Student", income_given |-> FALSE]
    /\ rets = [tax1 |-> NotCalled, tax2 |-> NotCalled, budget |-> <<>>]

Init == InitDb /\ InitSession /\ NoCalls

\* What the user enters, and what the health endpoint may answer.
Usernames == {"alice"}

Passwords == {"secret", "abc"}

RegisterTypes == {"Student", "Professional"}

ProfileTypes == {"Student", "Retired"}

ProfileIncomes == {50000}

TaxPageIncomes == {0, 50000, 130000}

DeductionValues == {0, 100000}

HealthResponses ==
    { Timeout,
      Response(200, Json([status |-> "ok"])),
      Response(503, Json([status |-> "unavailable"])),
      Response(503, Html),
      Response(200, Json([detail |-> "Not Found"])) }

Next ==
    \/ \E u \in Usernames, p \in Passwords : Login(u, p)
    \/ \E u \in Usernames, p \in Passwords, t \in RegisterTypes : Register(u, p, t)
    \/ \E page \in Pages : Navigate(page)
    \/ Logout
    \/ \E resp \in HealthResponses : CheckBackend(resp)
    \/ \E resp \in GenerateResponses : ChatInput("How do I save tax?", resp)
    \/ \E t \in ProfileTypes, i \in ProfileIncomes : ProfileInput(t, i, 0)
    \/ UpdateProfile
    \/ \E amount \in {0, 250} : AddExpense("Food", amount, "lunch")
    \/ \E amount \in {0, 5000} : AddInvestment("PPF", amount, 0)
    \/ \E mi \in ProfileIncomes, pf \in DeductionValues : TaxInput(mi, pf, 0, 0)
    \/ CalculateTax

Spec == Init /\ [][Next]_vars

(* ---------------- direct calls of the two helpers ---------------------- *)

MaxIncomeSteps == 13
MaxSmallIncome == 40

\* The annual incomes the if/elif chain of calculate_tax compares with.
Boundaries == {300000, 600000, 900000, 1200000, 1500000}

UserTypes == {"Student", "Professional", "Retired"}

\* Monthly incomes the tax calculator is called with: the multiples of
\* 10000, and the twelfth of each boundary with its two neighbours.
TaxIncomes ==
    {k * 10000 : k \in 0..MaxIncomeSteps}
    \cup {b \div 12 + d : b \in Boundaries, d \in {-1, 0, 1}}

\* Incomes the budget allocator is called with.
BudgetIncomes == (0..MaxSmallIncome) \cup {k * 10000 : k \in 1..MaxIncomeSteps}

BudgetUserTypes == UserTypes \cup {"student", ""}

InitCalc ==
    /\ InitDb /\ InitSession
    /\ args \in {a \in [income1 : TaxIncomes, income2 : TaxIncomes,
                        user_type : UserTypes, income_given : {TRUE}] :
                    a.income1 <= a.income2}
    /\ rets = [tax1 |-> NotCalled, tax2 |-> NotCalled, budget |-> <<>>]

CallTax1 ==
    /\ ~Called(rets.tax1)
    /\ rets' = [rets EXCEPT !.tax1 = calculate_tax(FromInt(args.income1), args.user_type)]
    /\ UNCHANGED <<args, appVars>>

CallTax2 ==
    /\ Called(rets.tax1) /\ ~Called(rets.tax2)
    /\ rets' = [rets EXCEPT !.tax2 = calculate_tax(FromInt(args.income2), args.user_type)]
    /\ UNCHANGED <<args, appVars>>

NextCalc == CallTax1 \/ CallTax2

SpecCalc == InitCalc /\ [][NextCalc]_vars

InitBudget ==
    /\ InitDb /\ InitSession
    /\ args \in {a \in [income1 : BudgetIncomes, income2 : {0},
                        user_type : BudgetUserTypes, income_given : BOOLEAN] :
                    ~a.income_given => a.income1 = 0}
    /\ rets = [tax1 |-> NotCalled, tax2 |-> NotCalled, budget |-> <<>>]

\* get_budget_summary(user_type, income) or, with the default income = 0,
\* get_budget_summary(user_type).
CallBudget ==
    /\ rets.budget = <<>>
    /\ rets' = [rets EXCEPT !.budget =
                   get_budget_summary(args.user_type,
                       IF args.income_given THEN FromInt(args.income1) ELSE FromInt(0))]
    /\ UNCHANGED <<args, appVars>>

NextBudget == CallBudget

SpecBudget == InitBudget /\ [][NextBudget]_vars

(* ---------------- the tax page of a session in progress ---------------- *)

\* A state of Spec: alice has registered and logged in, asked the chatbot a
\* question, added an expense and an investment, and opened the tax page.
InitTax ==
    /\ \E user_type \in RegisterTypes :
           users = << [username       |-> "alice",
                       password_hash  |-> hash_password("secret"),
                       user_type      |-> user_type,
                       monthly_income |-> 0,
                       savings_goal   |-> 0] >>
    /\ chat_history = << [username     |-> "alice",
                          user_message |-> "How do I save tax?",
                          bot_response |-> "Invest in PPF."] >>
    /\ expenses = << [username |-> "alice", category |-> "Food", amount |-> 250,
                      description |-> "lunch"] >>
    /\ investments = << [username |-> "alice", investment_type |-> "PPF",
                         amount |-> 5000, returns |-> 0] >>
    /\ session_state =
           [logged_in     |-> TRUE,
            username      |-> "alice",
            chat_messages |-> << [role |-> "user", content |-> "How do I save tax?"],
                                 [role |-> "assistant", content |-> "Invest in PPF."] >>,
            current_page  |-> "tax"]
    /\ widgets = [page |-> "tax", monthly_income |-> 0, pf |-> 0, elss |-> 0, lic |-> 0]
    /\ ui = PageView(widgets, session_state)
    /\ last_run = Event("Navigate", NoResponse)
    /\ NoCalls

NextTax ==
    \/ \E mi \in TaxPageIncomes, pf \in DeductionValues, elss \in DeductionValues,
          lic \in DeductionValues : TaxInput(mi, pf, elss, lic)
    \/ CalculateTax

SpecTax == InitTax /\ [][NextTax]_vars

(* ---------------- the expense page, with two users --------------------- *)

ExpenseUsers == {"alice", "bob"}

ExpenseAmounts == {0, 250, 4000}

\* alice and bob have registered; nobody is logged in.
InitExpenses ==
    /\ users = << [username       |-> "alice",
                   password_hash  |-> hash_password("secret"),
                   user_type      |-> "Student",
                   monthly_income |-> 0,
                   savings_goal   |-> 0],
                  [username       |-> "bob",
                   password_hash  |-> hash_password("secret"),
                   user_type      |-> "Professional",
                   monthly_income |-> 0,
                   savings_goal   |-> 0] >>
    /\ chat_history = <<>>
    /\ expenses = <<>>
    /\ investments = <<>>
    /\ InitSession
    /\ NoCalls

NextExpenses ==
    \/ \E u \in ExpenseUsers : Login(u, "secret")
    \/ Logout
    \/ Navigate("expenses")
    \/ \E amount \in ExpenseAmounts : AddExpense("Food", amount, "lunch")

SpecExpenses == InitExpenses /\ [][NextExpenses]_vars

(* ---------------- registrations from concurrent sessions --------------- *)

\* Each browser session runs the script in a thread of its own, and every
\* call of register_user opens a connection of its own.  SQLite lets one
\* connection write at a time: the INSERT, with its check of the primary key,
\* and the commit of one call are one step, and the INSERT of another call
\* waits for it.  Here args[s] is the call of register_user session s is in,
\* and rets[s] what the Register button of session s last came to.
Sessions == {1, 2}

MaxUsers == 3

RegisterUsernames == {"alice", "bob", " "}

RegisterPasswords == {"secret", "hunter22", "abc"}

SessionType(s) == IF s = 1 THEN "Student" ELSE "Professional"

\* The table users is empty, or alice has registered and updated her profile.
InitRegister ==
    /\ users \in { <<>>,
                   << [username       |-> "alice",
                       password_hash  |-> hash_password("secret"),
                       user_type      |-> "Retired",
                       monthly_income |-> 50000,
                       savings_goal   |-> 0] >> }
    /\ chat_history = <<>>
    /\ expenses = <<>>
    /\ investments = <<>>
    /\ InitSession
    /\ args = [s \in Sessions |-> NotCalled]
    /\ rets = [s \in Sessions |-> NotCalled]

\* The Register button in session s, up to the call of register_user.
PressRegister(s, new_username, new_password, user_type) ==
    /\ ~Called(args[s])
    /\ IF strip(new_username) = "" \/ strip(new_password) = ""
       THEN /\ rets' = [rets EXCEPT ![s] =
                           Message("error", "Username and password cannot be empty")]
            /\ UNCHANGED args
       ELSE IF Len(new_password) < MinPasswordLen
       THEN /\ rets' = [rets EXCEPT ![s] =
                           Message("error", "Password must be at least 6 characters")]
            /\ UNCHANGED args
       ELSE /\ args' = [args EXCEPT ![s] = [username  |-> new_username,
                                            password  |-> new_password,
                                            user_type |-> user_type]]
            /\ rets' = [rets EXCEPT ![s] = NotCalled]
    /\ UNCHANGED appVars

\* The INSERT and the commit of the call session s is in, and its return;
\* overlapped are the sessions that are in a call for the same username.
InsertUser(s) ==
    /\ Called(args[s])
    /\ Len(users) < MaxUsers
    /\ LET r == register_user(args[s].username, args[s].password, args[s].user_type)
       IN  /\ users' = r.users
           /\ rets' = [rets EXCEPT ![s] =
                          [returned   |-> r.returned,
                           username   |-> args[s].username,
                           overlapped |-> {t \in Sessions \ {s} :
                                              /\ Called(args[t])
                                              /\ args[t].username = args[s].username}]]
    /\ args' = [args EXCEPT ![s] = NotCalled]
    /\ UNCHANGED <<chat_history, expenses, investments, session_state, widgets, ui, last_run>>

NextRegister ==
    \/ \E s \in Sessions, u \in RegisterUsernames, p \in RegisterPasswords :
           PressRegister(s, u, p, SessionType(s))
    \/ \E s \in Sessions : InsertUser(s)

SpecRegister == InitRegister /\ [][NextRegister]_vars

(* ---------------- one browser session used by two users ---------------- *)

SessionUsers == {"alice", "bob"}

\* What a user asks the chatbot: each user a question of their own.
Question(username) ==
    IF username = "alice" THEN "How do I save tax?" ELSE "Where should I invest?"

\* alice and bob have registered and saved different incomes in their
\* profiles; nobody is logged in.
InitShared ==
    /\ users = << [username       |-> "alice",
                   password_hash  |-> hash_password("secret"),
                   user_type      |-> "Student",
                   monthly_income |-> 50000,
                   savings_goal   |-> 0],
                  [username       |-> "bob",
                   password_hash  |-> hash_password("secret"),
                   user_type      |-> "Professional",
                   monthly_income |-> 130000,
                   savings_goal   |-> 0] >>
    /\ chat_history = <<>>
    /\ expenses = <<>>
    /\ investments = <<>>
    /\ InitSession
    /\ NoCalls

\* The tax is calculated of the income the tax page takes from the profile.
NextShared ==
    \/ \E u \in SessionUsers : Login(u, "secret")
    \/ Logout
    \/ \E page \in {"chatbot", "tax"} : Navigate(page)
    \/ \E resp \in GenerateResponses : ChatInput(Question(session_state.username), resp)
    \/ CalculateTax

SpecShared == InitShared /\ [][NextShared]_vars

(* ---------------- claims about calculate_tax --------------------------- *)

TaxCalls ==
    (IF Called(rets.tax1) THEN {<<args.income1, rets.tax1>>} ELSE {})
    \cup (IF Called(rets.tax2) THEN {<<args.income2, rets.tax2>>} ELSE {})

\* The schedule of the specification, as a table: a bracket (lo, hi] is taxed
\* base + (annual - lo) * rate%.
Brackets ==
    { [lo |-> 300000,  hi |-> 600000,  base |-> 0,      rate |-> 5],
      [lo |-> 600000,  hi |-> 900000,  base |-> 15000,  rate |-> 10],
      [lo |-> 900000,  hi |-> 1200000, base |-> 45000,  rate |-> 15],
      [lo |-> 1200000, hi |-> 1500000, base |-> 90000,  rate |-> 20] }

ScheduleTax(a) ==
    IF a <= 300000 THEN Zero
    ELSE IF a > 1500000
    THEN FAdd(FromInt(150000), FMul(FromInt(a - 1500000), Lit(30, 100)))
    ELSE LET b == CHOOSE b \in Brackets : b.lo < a /\ a <= b.hi
         IN  FAdd(FromInt(b.base), FMul(FromInt(a - b.lo), Lit(b.rate, 100)))

BoundaryTax == <<0, 15000, 45000, 90000, 150000>>

\* C1: for every monthly income m >= 0 the base tax is the marginal schedule
\* applied to the annual income 12*m, and an annual income on a bracket
\* boundary 300000*j is taxed by the lower tier: 0, 15000, 45000, 90000, 150000.
C1_Schedule ==
    \A c \in TaxCalls :
        /\ ~Raised(c[2])
        /\ c[2].annual_income = FromInt(12 * c[1])
        /\ c[2].tax = ScheduleTax(12 * c[1])
        /\ \A j \in 1..Len(BoundaryTax) :
               12 * c[1] = 300000 * j => c[2].tax = FromInt(BoundaryTax[j])

C1_Witness ==
    /\ Called(rets.tax1) /\ Called(rets.tax2)
    /\ args.income1 = 50000 /\ rets.tax1.tax = FromInt(15000)
    /\ args.income2 = 125001 /\ FLt(FromInt(150000), rets.tax2.tax)

\* C2: for monthly incomes m1 <= m2 the base tax and the total tax of m1 are
\* at most those of m2, also across a bracket boundary.
C2_Monotone ==
    (Called(rets.tax1) /\ Called(rets.tax2) /\ args.income1 <= args.income2)
        => /\ FLe(rets.tax1.tax, rets.tax2.tax)
           /\ FLe(rets.tax1.total_tax, rets.tax2.total_tax)

C2_Witness ==
    /\ Called(rets.tax1) /\ Called(rets.tax2)
    /\ args.income1 = 75000 /\ args.income2 = 75001
    /\ FLt(rets.tax1.tax, rets.tax2.tax)
    /\ FLt(rets.tax1.total_tax, rets.tax2.total_tax)

\* C3: the cess is 4% of the returned base tax (0 when the base tax is 0),
\* and the total tax is the base tax plus the cess.
C3_Cess ==
    \A c \in TaxCalls :
        /\ c[2].cess = FMul(c[2].tax, Lit(4, 100))
        /\ c[2].total_tax = FAdd(c[2].tax, c[2].cess)
        /\ c[2].tax = Zero => (c[2].cess = Zero /\ c[2].total_tax = Zero)

C3_Witness ==
    /\ Called(rets.tax1) /\ rets.tax1.tax = Zero /\ rets.tax1.cess = Zero
    /\ Called(rets.tax2) /\ rets.tax2.tax = FromInt(45000)
    /\ rets.tax2.cess = FromInt(1800) /\ rets.tax2.total_tax = FromInt(46800)

\* C4: calculate_tax raises nothing on a non-negative income: with monthly
\* income 0 the effective rate is 0, and with m > 0 it is
\* total tax / annual income * 100.
C4_EffectiveRate ==
    \A c \in TaxCalls :
        /\ ~Raised(c[2])
        /\ c[1] = 0 => c[2].effective_rate = Zero
        /\ c[1] > 0 => c[2].effective_rate =
               FMul(FDiv(c[2].total_tax, FromInt(12 * c[1])), FromInt(100))

C4_Witness ==
    /\ Called(rets.tax1) /\ args.income1 = 0 /\ rets.tax1.effective_rate = Zero
    /\ Called(rets.tax2) /\ args.income2 = 50000
    /\ rets.tax2.effective_rate = Lit(26, 10)

(* ---------------- claims about get_budget_summary ---------------------- *)

BudgetCalled == rets.budget /= <<>>

\* sum(budget.values()), added up in the order of the dict.
RECURSIVE SumValues(_)
SumValues(b) ==
    IF b = <<>> THEN Zero
    ELSE FAdd(SumValues(SubSeq(b, 1, Len(b) - 1)), b[Len(b)][2])

Keys(b) == Tup([i \in 1..Len(b) |-> b[i][1]], Len(b))

StudentSplit == << <<"Essentials", 50>>, <<"Education", 30>>, <<"Savings", 20>> >>

DefaultSplit == << <<"Essentials", 40>>, <<"Savings", 20>>,
                   <<"Investments", 20>>, <<"Discretionary", 20>> >>

\* The split in percent as shares, or as amounts of an income.
Shares(split) == Tup([i \in 1..Len(split) |-> <<split[i][1], Lit(split[i][2], 100)>>],
                     Len(split))

Amounts(split, income) ==
    Tup([i \in 1..Len(split) |->
            <<split[i][1], FMul(Lit(split[i][2], 100), FromInt(income))>>], Len(split))

\* C5: with income 0, or no income given, the result holds shares, not
\* amounts, and they sum to 1.0, for the Student and for the default split.
C5_SharesSumToOne ==
    (BudgetCalled /\ args.income1 = 0)
        => /\ \A i \in 1..Len(rets.budget) :
                  /\ FLt(Zero, rets.budget[i][2])
                  /\ FLt(rets.budget[i][2], FromInt(1))
           /\ SumValues(rets.budget) = FromInt(1)

C5_Witness ==
    /\ BudgetCalled /\ ~args.income_given /\ args.user_type = "Professional"
    /\ Len(rets.budget) = 4
    /\ SumValues(rets.budget) = FromInt(1)

\* C6 as claimed: with an income > 0 every category gets fraction * income,
\* and the amounts sum to the income; Student with 100000 gets 50000, 30000
\* and 20000.
C6_AmountsSumToIncome ==
    (BudgetCalled /\ args.income1 > 0)
        => /\ rets.budget =
                  Amounts(IF args.user_type = "Student" THEN StudentSplit ELSE DefaultSplit,
                          args.income1)
           /\ SumValues(rets.budget) = FromInt(args.income1)
           /\ (args.user_type = "Student" /\ args.income1 = 100000)
                  => rets.budget = << <<"Essentials", FromInt(50000)>>,
                                      <<"Education", FromInt(30000)>>,
                                      <<"Savings", FromInt(20000)>> >>

\* |x - y| <= y * 2^-50
Near(x, y) ==
    LET d == IF FLe(x, y) THEN FSub(y, x) ELSE FSub(x, y)
    IN  FLe(d, [m |-> y.m, e |-> y.e - 50])

\* C6 as amended: with an income > 0 every category gets the float product
\* fraction * income; the amounts sum to the income up to rounding (a relative
\* error of at most 2^-50), and exactly for Student with 100000.
C6_AmountsNearIncome ==
    (BudgetCalled /\ args.income1 > 0)
        => /\ rets.budget =
                  Amounts(IF args.user_type = "Student" THEN StudentSplit ELSE DefaultSplit,
                          args.income1)
           /\ Near(SumValues(rets.budget), FromInt(args.income1))
           /\ (args.user_type = "Student" /\ args.income1 = 100000)
                  => /\ rets.budget = << <<"Essentials", FromInt(50000)>>,
                                         <<"Education", FromInt(30000)>>,
                                         <<"Savings", FromInt(20000)>> >>
                     /\ SumValues(rets.budget) = FromInt(100000)

C6_Witness ==
    /\ BudgetCalled /\ args.user_type = "Professional" /\ args.income1 = 3
    /\ SumValues(rets.budget) /= FromInt(3)
    /\ Near(SumValues(rets.budget), FromInt(3))

\* C7: only the user type Student gets Essentials 0.50, Education 0.30,
\* Savings 0.20; every other user type gets Essentials 0.40, Savings 0.20,
\* Investments 0.20, Discretionary 0.20.
C7_DefaultSplit ==
    BudgetCalled
        => LET split == IF args.user_type = "Student" THEN StudentSplit ELSE DefaultSplit
           IN  /\ Keys(rets.budget) = Keys(split)
               /\ args.income1 = 0 => rets.budget = Shares(split)
               /\ args.income1 > 0 => rets.budget = Amounts(split, args.income1)

C7_Witness ==
    /\ BudgetCalled /\ args.user_type = "Retired" /\ args.income1 = 0
    /\ rets.budget = Shares(DefaultSplit)


(* ---------------- claims about the pages ------------------------------- *)

\* A script run that renders the budget recommendation of the profile page
\* without the Update Profile button pressed, or runs the Calculate Tax button.
Computes(run, shown) ==
    \/ run.event = "Calculate Tax"
    \/ shown.kind = "budget" /\ run.event /= "Update Profile"

\* C8: pressing Calculate Tax on the tax page, and rendering the budget
\* recommendation on the profile page, leave every row of the tables users,
\* expenses, investments and chat_history as it was.
C8_ComputationsWriteNothing ==
    [][Computes(last_run', ui')
          => /\ users' = users
             /\ expenses' = expenses
             /\ investments' = investments
             /\ chat_history' = chat_history]_vars

C8_Witness ==
    /\ last_run.event = "Calculate Tax"
    /\ "tax_calculation" \in DOMAIN session_state
    /\ ui.results /= NoResults
    /\ Len(users) > 0 /\ Len(expenses) > 0 /\ Len(investments) > 0 /\ Len(chat_history) > 0

\* The request of a script run failed: a timeout, a status that is no
\* success, or a response that is not the JSON of a dict with the key read.
RequestFailed(run) ==
    LET r == run.response
        key == IF run.event = "Check Backend" THEN "status" ELSE "generated_text"
    IN  IF r = NoResponse THEN FALSE
        ELSE IF Raised(r) THEN TRUE
        ELSE IF r.status_code < 200 \/ r.status_code >= 300 THEN TRUE
        ELSE IF "json" \notin DOMAIN r.text THEN TRUE
        ELSE key \notin DOMAIN r.text.json

\* The failure is shown: an error message of the chat page, or the tips of
\* the tax page saying that they could not be fetched.
FailureShown(run, shown) ==
    IF run.event = "Calculate Tax"
    THEN shown.results /= NoResults /\ shown.results.tips = TipsUnavailable
    ELSE shown.kind = "error"

\* C9: whenever a request to the service fails, from the chat page, the tax
\* page or the Check Backend button, the failure is shown to the user as an
\* error, the session stays logged in with the same username, and no row is
\* added to chat_history.
C9_FailuresSurfaced ==
    [][RequestFailed(last_run')
          => /\ FailureShown(last_run', ui')
             /\ session_state'.logged_in
             /\ session_state'.username = session_state.username
             /\ chat_history' = chat_history]_vars

\* C10: the deductions are collected on the tax page, and their total is
\* shown, but the tax stored and shown by Calculate Tax is that of 12 times
\* the monthly income entered, whatever the deductions are.
C10_DeductionsNotSubtracted ==
    (last_run.event = "Calculate Tax" /\ widgets.monthly_income > 0)
        => LET tax_info == session_state.tax_calculation
           IN  /\ ui.total_80c = Min(widgets.pf + widgets.elss + widgets.lic, 150000)
               /\ tax_info.annual_income = FromInt(12 * widgets.monthly_income)
               /\ tax_info.tax = ScheduleTax(12 * widgets.monthly_income)
               /\ tax_info.total_tax = FAdd(tax_info.tax, FMul(tax_info.tax, Lit(4, 100)))
               /\ ui.results /= NoResults /\ ui.results.tax_info = tax_info

C10_Witness ==
    /\ last_run.event = "Calculate Tax"
    /\ widgets.monthly_income = 50000
    /\ widgets.pf > 0 /\ widgets.elss > 0 /\ widgets.lic > 0
    /\ ui.total_80c = 150000
    /\ session_state.tax_calculation.tax = FromInt(15000)
    /\ ui.results.tax_info.total_tax = FromInt(15600)
\* C11: every row of expenses has a non-negative amount; an Add Expense with
\* an amount that is not greater than 0 shows an error and adds no row; and
\* no step changes or removes a row that is there.
C11_ExpensesNonNegative ==
    /\ [](\A i \in 1..Len(expenses) : expenses[i].amount >= 0)
    /\ [][/\ Len(expenses') >= Len(expenses)
          /\ SubSeq(expenses', 1, Len(expenses)) = expenses
          /\ (last_run'.event = "Add Expense" /\ widgets'.amount <= 0)
                 => (ui'.kind = "error" /\ expenses' = expenses)]_vars

C11_Witness ==
    /\ Len(expenses) = 2
    /\ expenses[1].username /= expenses[2].username
    /\ last_run.event = "Add Expense"
    /\ widgets.amount = 0
    /\ ui = Message("error", "Amount must be greater than 0")

RowsOf(username) == {i \in 1..Len(users) : users[i].username = username}

\* C12: no two rows of users have the same username, whatever registrations
\* are made and however the calls of two sessions interleave; a registration
\* of a username that has a row returns False and leaves the table, and so
\* the password hash, user type, income and savings goal of the row, as it was.
C12_UsernamesUnique ==
    /\ [](\A u \in RegisterUsernames : Cardinality(RowsOf(u)) <= 1)
    /\ [][\A s \in Sessions :
              (Called(args[s]) /\ ~Called(args'[s])) =>
                  /\ SubSeq(users', 1, Len(users)) = users
                  /\ RowsOf(args[s].username) /= {} =>
                         (rets'[s].returned = FALSE /\ users' = users)]_vars

C12_Witness ==
    /\ rets[1] = [returned |-> TRUE, username |-> "alice", overlapped |-> {2}]
    /\ rets[2] = [returned |-> FALSE, username |-> "alice", overlapped |-> {}]
    /\ Len(users) = 1
    /\ users[1].password_hash = hash_password("hunter22")
    /\ users[1].user_type = SessionType(1)

OwnIncome == get_user_profile(session_state.username).monthly_income

\* C13: while a user is logged in, the session state holds nothing derived
\* from another user who used the browser session before: every question of
\* the chat transcript is the user's own, and a tax calculation that is
\* stored, or shown on the tax page, is that of the user's own income.
C13_NoDataOfPreviousUser ==
    LoggedIn =>
        /\ \A i \in 1..Len(session_state.chat_messages) :
               session_state.chat_messages[i].role = "user" =>
                   session_state.chat_messages[i].content = Question(session_state.username)
        /\ "tax_tips" \in DOMAIN session_state => "tax_calculation" \in DOMAIN session_state
        /\ "tax_calculation" \in DOMAIN session_state =>
               session_state.tax_calculation.annual_income = FromInt(12 * OwnIncome)
        /\ ("results" \in DOMAIN ui /\ ui.results /= NoResults) =>
               ui.results.tax_info.annual_income = FromInt(12 * OwnIncome)

====
